---- MODULE Spec2Model ----
(***************************************************************************)
(* A model of the endian_type crate (src/src/lib.rs): the two wrappers     *)
(* LittleEndian<T> and BigEndian<T>, their conversions and the operator    *)
(* layer generated by impl_endian!.                                        *)
(*                                                                         *)
(* An integer of a type T of W bytes is a sequence of W bytes, index 1     *)
(* the least significant byte and index W the most significant one (a      *)
(* numeral in base 256, two's complement for the signed types).  This is   *)
(* the VALUE of the integer; the bytes it occupies in memory are           *)
(* to_ne_bytes of it and depend on the target's byte order.                *)
(***************************************************************************)
EXTENDS Integers, Sequences, FiniteSets, TLC

VARIABLES
    target_endian,    \* cfg(target_endian) of the build: "little" or "big"
    overflow_checks,  \* whether the build checks + and - for overflow
    T,                \* the integer type impl_endian! is instantiated at
    x,                \* a native value of T given by the caller
    y,                \* a second native value of T given by the caller
    chain,            \* a value and the conversions applied to it, in order
    lhs,              \* the left operand of an operator
    rhs,              \* the right operand of an operator
    out               \* what the operator returned

vars == <<target_endian, overflow_checks, T, x, y, chain, lhs, rhs, out>>

build == <<target_endian, overflow_checks, T>>

(***************************************************************************)
(* Bounds of the model.                                                    *)
(***************************************************************************)
\* the number of conversions applied to one value
MaxSteps == 3

\* the widest type, u128 and i128, is of 2^4 bytes
MaxLog2Width == 4

(***************************************************************************)
(* The integer types.                                                      *)
(***************************************************************************)
RECURSIVE Pow2(_)
Pow2(k) == IF k = 0 THEN 1 ELSE 2 * Pow2(k - 1)

Widths == {Pow2(k) : k \in 0..MaxLog2Width}

\* u8, u16, u32, u64, u128 and i8, i16, i32, i64, i128 (usize and isize are
\* of the width of one of them): the width in bytes and the sign
IntTypes == [bytes : Widths, signed : BOOLEAN]

Endians == {"LittleEndian", "BigEndian"}

Other(e) == IF e = "LittleEndian" THEN "BigEndian" ELSE "LittleEndian"

\* the byte order a wrapper type declares
Declared(e) == IF e = "LittleEndian" THEN "little" ELSE "big"

(***************************************************************************)
(* The values the caller passes in: for each width zero, one, three, four, *)
(* one in the most significant byte, all ones (the unsigned maximum, -1),  *)
(* the signed minimum and maximum, and a value whose bytes all differ      *)
(* (0xDE, 0xDEAD, 0xDEADBEEF, ...).                                        *)
(***************************************************************************)
Pattern == <<222, 173, 190, 239, 1, 35, 69, 103, 137, 171, 205, 239, 16, 50, 84, 118>>

Small(n, W) == [i \in 1..W |-> IF i = 1 THEN n ELSE 0]

Samples(W) ==
    { Small(0, W), Small(1, W), Small(3, W), Small(4, W),
      [i \in 1..W |-> IF i = W THEN 1 ELSE 0],
      [i \in 1..W |-> 255],
      [i \in 1..W |-> IF i = W THEN 128 ELSE 0],
      [i \in 1..W |-> IF i = W THEN 127 ELSE 255],
      [i \in 1..W |-> Pattern[W + 1 - i]] }

(***************************************************************************)
(* The primitives of the integer types that the crate calls.               *)
(***************************************************************************)
\* T::reverse_bits, which the crate never calls: the bits of the integer in
\* the reverse order (a mutation calls it in place of swap_bytes)
RECURSIVE reverse_bits8(_, _)
reverse_bits8(b, n) ==
    IF n = 0 THEN 0 ELSE (b % 2) * Pow2(n - 1) + reverse_bits8(b \div 2, n - 1)

reverse_bits(v) == [i \in 1..Len(v) |-> reverse_bits8(v[Len(v) + 1 - i], 8)]

\* T::swap_bytes: the bytes of the integer in the reverse order
swap_bytes(v) == [i \in 1..Len(v) |-> v[Len(v) + 1 - i]]

\* T::to_be: the identity on a big-endian target, swap_bytes on a little-endian one
to_be(v) == IF target_endian = "big" THEN v ELSE swap_bytes(v)

\* T::to_le: the identity on a little-endian target, swap_bytes on a big-endian one
to_le(v) == IF target_endian = "little" THEN v ELSE swap_bytes(v)

\* The bytes of a value of T in memory, in increasing address order.  Both
\* wrappers are repr(transparent): their memory is that of the field.
to_ne_bytes(v) == IF target_endian = "little" THEN v ELSE swap_bytes(v)

(***************************************************************************)
(* impl_endian_base: from_native, new and to_native of the two wrappers.   *)
(* Each takes and returns the stored field self.0.                         *)
(***************************************************************************)
\* the mutation of BigEndian_from_native: to_le called in place of to_be
BigEndian_from_native_le(data) == to_le(data)

BigEndian_from_native(data) == to_be(data)

\* the mutation of BigEndian_new: the raw bits are encoded
BigEndian_new_encoding(data) == to_be(data)

BigEndian_new(data) == data

\* the mutation of BigEndian_to_native: the little-endian arm returns self.0
BigEndian_to_native_noswap(self) == self

BigEndian_to_native(self) ==
    IF target_endian = "big" THEN self ELSE swap_bytes(self)

LittleEndian_from_native(data) == to_le(data)

LittleEndian_new(data) == data

LittleEndian_to_native(self) ==
    IF target_endian = "big" THEN swap_bytes(self) ELSE self

\* a wrapper, or a native value (kind "native"), with its bits
Val(kind, v) == [kind |-> kind, v |-> v]

from_native(e, data) ==
    IF e = "BigEndian" THEN Val(e, BigEndian_from_native(data))
                       ELSE Val(e, LittleEndian_from_native(data))

new(e, data) ==
    IF e = "BigEndian" THEN Val(e, BigEndian_new(data))
                       ELSE Val(e, LittleEndian_new(data))

to_native(w) ==
    IF w.kind = "BigEndian" THEN BigEndian_to_native(w.v)
                            ELSE LittleEndian_to_native(w.v)

(***************************************************************************)
(* impl_endian_from_native: From<wrapper> for T and From<T> for wrapper.   *)
(***************************************************************************)
native_from(data) == to_native(data)

wrapper_from(e, data) == from_native(e, data)

(***************************************************************************)
(* impl_endian_from_each: From<LittleEndian<T>> for BigEndian<T> and back. *)
(***************************************************************************)
\* the mutation of BigEndian_from_LittleEndian: the stored bits are copied
BigEndian_from_LittleEndian_copy(data) == Val("BigEndian", data.v)

\* the mutation of BigEndian_from_LittleEndian: to_be in place of swap_bytes
BigEndian_from_LittleEndian_to_be(data) == Val("BigEndian", to_be(data.v))

BigEndian_from_LittleEndian(data) == Val("BigEndian", swap_bytes(data.v))

\* the mutation of LittleEndian_from_BigEndian: reverse_bits in place of swap_bytes
LittleEndian_from_BigEndian_bits(data) == Val("LittleEndian", reverse_bits(data.v))

LittleEndian_from_BigEndian(data) == Val("LittleEndian", swap_bytes(data.v))

from_each(data) ==
    IF data.kind = "LittleEndian" THEN BigEndian_from_LittleEndian(data)
                                  ELSE LittleEndian_from_BigEndian(data)

(***************************************************************************)
(* The conversions applied to one value.  chain[1] is the value the caller *)
(* starts from; each later entry is a call and what it returned.           *)
(***************************************************************************)
Link(call, val) == [call |-> call, kind |-> val.kind, v |-> val.v]

Last == chain[Len(chain)]

NoOut == [op |-> "none", kind |-> "none", v |-> <<>>, res |-> ""]

Init ==
    /\ target_endian \in {"little", "big"}
    /\ overflow_checks \in BOOLEAN
    /\ T \in IntTypes
    /\ x \in Samples(T.bytes)
    /\ y = x
    /\ chain = <<Link("input", Val("native", x))>>
    /\ lhs = Val("native", x)
    /\ rhs = Val("native", y)
    /\ out = NoOut

CanStep == Len(chain) <= MaxSteps

Push(call, val) ==
    /\ chain' = Append(chain, Link(call, val))
    /\ UNCHANGED <<build, x, y, lhs, rhs, out>>

\* E::from_native(data)
FromNative(e) ==
    /\ CanStep
    /\ Last.kind = "native"
    /\ Push("from_native", from_native(e, Last.v))

\* E::new(data)
New(e) ==
    /\ CanStep
    /\ Last.kind = "native"
    /\ Push("new", new(e, Last.v))

\* data.into(), From<T> for E<T>
IntoWrapper(e) ==
    /\ CanStep
    /\ Last.kind = "native"
    /\ Push("From<T>", wrapper_from(e, Last.v))

\* self.to_native()
ToNative ==
    /\ CanStep
    /\ Last.kind \in Endians
    /\ Push("to_native", Val("native", to_native(Last)))

\* data.into(), From<E<T>> for T
IntoNative ==
    /\ CanStep
    /\ Last.kind \in Endians
    /\ Push("From<wrapper>", Val("native", native_from(Last)))

\* data.into(), From<E<T>> for the wrapper of the other order
FromEach ==
    /\ CanStep
    /\ Last.kind \in Endians
    /\ Push("From<other>", from_each(Last))

Next ==
    \/ \E e \in Endians : FromNative(e)
    \/ \E e \in Endians : New(e)
    \/ \E e \in Endians : IntoWrapper(e)
    \/ ToNative
    \/ IntoNative
    \/ FromEach

Spec == Init /\ [][Next]_vars

(***************************************************************************)
(* The primitive operators of T that the operator layer calls.  bitand,    *)
(* bitor and bitxor act on each byte; add and sub are two's complement     *)
(* with the overflow behaviour of the build: a panic with overflow checks, *)
(* the wrapped result without.                                             *)
(***************************************************************************)
BitOps == {"bitand", "bitor", "bitxor"}
ArithOps == {"add", "sub"}
Ops == BitOps \cup ArithOps
Cmps == {"eq", "partial_cmp"}

bit(op, a, b) ==
    IF op = "bitand" THEN a * b
    ELSE IF op = "bitor" THEN a + b - a * b
    ELSE (a + b) % 2

RECURSIVE bits8(_, _, _, _)
bits8(op, a, b, n) ==
    IF n = 0 THEN 0
    ELSE bit(op, a % 2, b % 2) + 2 * bits8(op, a \div 2, b \div 2, n - 1)

bitwise(op, a, b) == [i \in 1..Len(a) |-> bits8(op, a[i], b[i], 8)]

\* a + b byte by byte from the least significant one; the last entry is the carry out
RECURSIVE add_carry(_, _, _, _)
add_carry(a, b, i, c) ==
    IF i > Len(a) THEN <<c>>
    ELSE LET s == a[i] + b[i] + c
         IN  <<s % 256>> \o add_carry(a, b, i + 1, s \div 256)

\* a - b byte by byte from the least significant one; the last entry is the borrow out
RECURSIVE sub_borrow(_, _, _, _)
sub_borrow(a, b, i, c) ==
    IF i > Len(a) THEN <<c>>
    ELSE LET d == a[i] - b[i] - c
         IN  <<(d + 256) % 256>> \o sub_borrow(a, b, i + 1, IF d < 0 THEN 1 ELSE 0)

wide(op, a, b) == IF op = "add" THEN add_carry(a, b, 1, 0) ELSE sub_borrow(a, b, 1, 0)

wrapping(op, a, b) == SubSeq(wide(op, a, b), 1, Len(a))

negative(v) == v[Len(v)] >= 128

\* whether a + b (a - b) is not representable in T
overflows(op, a, b) ==
    IF ~T.signed THEN wide(op, a, b)[Len(a) + 1] = 1
    ELSE IF op = "add"
         THEN negative(a) = negative(b) /\ negative(wrapping(op, a, b)) # negative(a)
         ELSE negative(a) # negative(b) /\ negative(wrapping(op, a, b)) # negative(a)

\* a.bitand(b), a.bitor(b), a.bitxor(b), a.add(b), a.sub(b) of the primitive type
prim(op, a, b) ==
    IF op \in BitOps THEN [panic |-> FALSE, v |-> bitwise(op, a, b)]
    ELSE [panic |-> overflow_checks /\ overflows(op, a, b), v |-> wrapping(op, a, b)]

\* the order of a and b from the most significant byte down; the sign bit of a
\* signed type orders the negative values first
RECURSIVE cmp_from(_, _, _)
cmp_from(a, b, i) ==
    IF i = 0 THEN "Equal"
    ELSE LET flip(c) == IF T.signed /\ i = Len(a) THEN (c + 128) % 256 ELSE c
         IN  IF flip(a[i]) < flip(b[i]) THEN "Less"
             ELSE IF flip(a[i]) > flip(b[i]) THEN "Greater"
             ELSE cmp_from(a, b, i - 1)

Some(o) ==
    IF o = "Less" THEN "Some(Less)"
    ELSE IF o = "Equal" THEN "Some(Equal)" ELSE "Some(Greater)"

\* a.eq(&b) and a.partial_cmp(&b) of the primitive type
prim_cmp(fn, a, b) ==
    IF fn = "eq" THEN [kind |-> "bool", res |-> IF a = b THEN "true" ELSE "false"]
    ELSE [kind |-> "ordering", res |-> Some(cmp_from(a, b, Len(a)))]

(***************************************************************************)
(* impl_endian_cmp_each, impl_endian_cmp_native: eq and partial_cmp.       *)
(***************************************************************************)
\* the mutation of impl_endian_cmp_each: the stored fields are compared
impl_endian_cmp_each_stored(fn, self, other) == prim_cmp(fn, self.v, other.v)

impl_endian_cmp_each(fn, self, other) ==
    prim_cmp(fn, to_native(self), to_native(other))

\* wrapper on the left, native on the right
impl_endian_cmp_native(fn, self, other) == prim_cmp(fn, to_native(self), other.v)

\* native on the left, wrapper on the right
impl_native_cmp_endian(fn, self, other) == prim_cmp(fn, self.v, to_native(other))

(***************************************************************************)
(* impl_endian_op_each, impl_endian_op_native: bitand, bitor, bitxor, add  *)
(* and sub.  A panic of the primitive operator is the outcome of the call. *)
(***************************************************************************)
Panic == [kind |-> "panic", v |-> <<>>]

Returned(r, kind) == IF r.panic THEN Panic ELSE
    IF kind = "native" THEN Val("native", r.v) ELSE from_native(kind, r.v)

\* the mutation of impl_endian_op_each: the result is stored without from_native
impl_endian_op_each_raw(op, self, other) ==
    LET r == prim(op, to_native(self), to_native(other))
    IN  IF r.panic THEN Panic ELSE Val(self.kind, r.v)

\* the mutation of impl_endian_op_each: wrapping_add and wrapping_sub are called
impl_endian_op_each_wrapping(op, self, other) ==
    LET r == prim(op, to_native(self), to_native(other))
    IN  from_native(self.kind, r.v)

impl_endian_op_each(op, self, other) ==
    Returned(prim(op, to_native(self), to_native(other)), self.kind)

\* wrapper on the left, native on the right
impl_endian_op_native(op, self, other) ==
    Returned(prim(op, to_native(self), other.v), self.kind)

\* the mutation of impl_native_op_endian: the stored field of rhs is used
impl_native_op_endian_stored(op, self, other) ==
    Returned(prim(op, self.v, other.v), "native")

\* native on the left, wrapper on the right
impl_native_op_endian(op, self, other) ==
    Returned(prim(op, self.v, to_native(other)), "native")

(***************************************************************************)
(* The operator layer: two operands, each x (y) itself or a wrapper of it, *)
(* one operator applied to them, and the result decoded.                   *)
(***************************************************************************)
InitOp ==
    /\ target_endian \in {"little", "big"}
    /\ overflow_checks \in BOOLEAN
    /\ T \in IntTypes
    /\ x \in Samples(T.bytes)
    /\ y \in Samples(T.bytes)
    /\ chain = <<Link("input", Val("native", x))>>
    /\ lhs = Val("native", x)
    /\ rhs = Val("native", y)
    /\ out = NoOut

Result(op, r) ==
    [op |-> op, kind |-> r.kind,
     v |-> IF r.kind \in Endians \cup {"native"} THEN r.v ELSE <<>>,
     res |-> IF r.kind \in {"bool", "ordering"} THEN r.res ELSE ""]

Return(op, r) ==
    /\ out' = Result(op, r)
    /\ UNCHANGED <<build, x, y, chain, lhs, rhs>>

\* let lhs = E::from_native(x)
WrapLhs(e) ==
    /\ out = NoOut
    /\ lhs.kind = "native"
    /\ lhs' = from_native(e, x)
    /\ UNCHANGED <<build, x, y, chain, rhs, out>>

\* let rhs = E::from_native(y)
WrapRhs(e) ==
    /\ out = NoOut
    /\ rhs.kind = "native"
    /\ rhs' = from_native(e, y)
    /\ UNCHANGED <<build, x, y, chain, lhs, out>>

\* lhs op rhs, both wrappers
OpEach(op) ==
    /\ out = NoOut
    /\ lhs.kind \in Endians /\ rhs.kind \in Endians
    /\ Return(op, impl_endian_op_each(op, lhs, rhs))

\* lhs op rhs, lhs a wrapper and rhs native
OpNative(op) ==
    /\ out = NoOut
    /\ lhs.kind \in Endians /\ rhs.kind = "native"
    /\ Return(op, impl_endian_op_native(op, lhs, rhs))

\* lhs op rhs, lhs native and rhs a wrapper
NativeOp(op) ==
    /\ out = NoOut
    /\ lhs.kind = "native" /\ rhs.kind \in Endians
    /\ Return(op, impl_native_op_endian(op, lhs, rhs))

\* lhs == rhs, lhs.partial_cmp(&rhs), both wrappers
CmpEach(fn) ==
    /\ out = NoOut
    /\ lhs.kind \in Endians /\ rhs.kind \in Endians
    /\ Return(fn, impl_endian_cmp_each(fn, lhs, rhs))

\* lhs == rhs, lhs.partial_cmp(&rhs), lhs a wrapper and rhs native
CmpNative(fn) ==
    /\ out = NoOut
    /\ lhs.kind \in Endians /\ rhs.kind = "native"
    /\ Return(fn, impl_endian_cmp_native(fn, lhs, rhs))

\* lhs == rhs, lhs.partial_cmp(&rhs), lhs native and rhs a wrapper
NativeCmp(fn) ==
    /\ out = NoOut
    /\ lhs.kind = "native" /\ rhs.kind \in Endians
    /\ Return(fn, impl_native_cmp_endian(fn, lhs, rhs))

\* (lhs op rhs).to_native()
ResultToNative ==
    /\ out.kind \in Endians
    /\ out' = [out EXCEPT !.kind = "native", !.v = to_native(out)]
    /\ UNCHANGED <<build, x, y, chain, lhs, rhs>>

NextOp ==
    \/ \E e \in Endians : WrapLhs(e)
    \/ \E e \in Endians : WrapRhs(e)
    \/ \E op \in Ops : OpEach(op)
    \/ \E op \in Ops : OpNative(op)
    \/ \E op \in Ops : NativeOp(op)
    \/ \E fn \in Cmps : CmpEach(fn)
    \/ \E fn \in Cmps : CmpNative(fn)
    \/ \E fn \in Cmps : NativeCmp(fn)
    \/ ResultToNative

SpecOp == InitOp /\ [][NextOp]_vars

(***************************************************************************)
(* What the claims are stated with: the bytes of a native value by         *)
(* significance, written out independently of swap_bytes.                  *)
(***************************************************************************)
MostSignificantFirst(v) == [i \in 1..Len(v) |-> v[(Len(v) - i) + 1]]

LeastSignificantFirst(v) == v

ByteReversed(v) == MostSignificantFirst(v)

Steps == 1..(Len(chain) - 1)

Encoders == {"from_native", "From<T>"}

Decoders == {"to_native", "From<wrapper>"}

\* chain[i+1] was decoded from the wrapper chain[i]
Decoded(i) == i \in Steps /\ chain[i + 1].call \in Decoders

DEADBEEF == <<239, 190, 173, 222>>

(***************************************************************************)
(* Claims about the conversions (Spec).                                    *)
(***************************************************************************)

\* C1: decoding what was encoded gives the value back: whenever a native
\* value is encoded by from_native or From<T> into either wrapper and the
\* wrapper is then decoded by to_native or From<wrapper>, the result is the
\* value encoded, on a little-endian and on a big-endian target.
C1_RoundTrip ==
    \A i \in Steps :
        (chain[i + 1].call \in Encoders /\ Decoded(i + 1))
            => chain[i + 2].v = chain[i].v

C1_Witness ==
    /\ Len(chain) = 3
    /\ target_endian = "little" /\ T.bytes = 4 /\ x = DEADBEEF
    /\ chain[2].call = "from_native" /\ chain[2].kind = "BigEndian"
    /\ chain[2].v # x
    /\ chain[3].call = "to_native" /\ chain[3].v = x

\* C2: the stored field of BigEndian::from_native(x), read in increasing
\* address order, is the bytes of x from the most significant one down, that
\* of LittleEndian::from_native(x) is the bytes of x from the least
\* significant one up, on either target; to_native of both returns x.
C2_StoredBytes ==
    \A i \in Steps :
        chain[i + 1].call = "from_native" =>
            /\ to_ne_bytes(chain[i + 1].v) =
                   IF chain[i + 1].kind = "BigEndian"
                   THEN MostSignificantFirst(chain[i].v)
                   ELSE LeastSignificantFirst(chain[i].v)
            /\ (i + 1 \in Steps /\ chain[i + 2].call = "to_native")
                   => chain[i + 2].v = chain[i].v

C2_Witness ==
    /\ Len(chain) = 3
    /\ target_endian = "big" /\ T.bytes = 4 /\ x = DEADBEEF
    /\ chain[2].call = "from_native" /\ chain[2].kind = "BigEndian"
    /\ to_ne_bytes(chain[2].v) = <<222, 173, 190, 239>>
    /\ chain[3].call = "to_native" /\ chain[3].v = x

\* C5: converting a wrapper A (built by from_native or by new from any bits)
\* to the wrapper of the other order gives the stored bits of
\* Other::from_native(A.to_native()), and decoding the converted wrapper
\* gives A.to_native().
C5_DirectEqualsViaNative ==
    \A i \in Steps :
        chain[i + 1].call = "From<other>" =>
            /\ chain[i + 1].kind = Other(chain[i].kind)
            /\ chain[i + 1].v = from_native(Other(chain[i].kind), to_native(chain[i])).v
            /\ Decoded(i + 1) => chain[i + 2].v = to_native(chain[i])

C5_Witness ==
    /\ Len(chain) = 4
    /\ T.bytes = 4 /\ x = DEADBEEF
    /\ chain[2].call = "new" /\ chain[2].kind = "LittleEndian"
    /\ chain[3].call = "From<other>" /\ chain[3].kind = "BigEndian"
    /\ chain[3].v # chain[2].v
    /\ chain[4].call = "to_native"

\* C6: converting a wrapper to the other order and back gives the original
\* wrapper, stored bits unchanged.
C6_CrossRoundTrip ==
    \A i \in Steps :
        (chain[i + 1].call = "From<other>" /\ i + 1 \in Steps
            /\ chain[i + 2].call = "From<other>")
        => (chain[i + 2].v = chain[i].v /\ chain[i + 2].kind = chain[i].kind)

C6_Witness ==
    /\ Len(chain) = 4
    /\ target_endian = "big" /\ T.bytes = 2
    /\ chain[2].call = "new" /\ chain[2].kind = "LittleEndian"
    /\ chain[3].call = "From<other>" /\ chain[3].v # chain[2].v
    /\ chain[4].call = "From<other>" /\ chain[4].v = chain[2].v

\* C8: new(raw) stores raw as it is; to_native of the result is raw when
\* the target's byte order is the wrapper's and raw with its bytes reversed
\* otherwise; new(raw) and from_native(raw) hold the same bits exactly when
\* the target's order is the wrapper's or raw reads the same reversed.
C8_NewVerbatim ==
    \A i \in Steps :
        chain[i + 1].call = "new" =>
            LET raw == chain[i].v
                e == chain[i + 1].kind
                same == target_endian = Declared(e)
            IN  /\ chain[i + 1].v = raw
                /\ (from_native(e, raw).v = chain[i + 1].v)
                       <=> (same \/ ByteReversed(raw) = raw)
                /\ Decoded(i + 1) =>
                       chain[i + 2].v = IF same THEN raw ELSE ByteReversed(raw)

C8_Witness ==
    /\ Len(chain) = 3
    /\ target_endian = "little" /\ T.bytes = 4 /\ x = DEADBEEF
    /\ chain[2].call = "new" /\ chain[2].kind = "BigEndian" /\ chain[2].v = x
    /\ chain[3].call = "to_native" /\ chain[3].v = <<222, 173, 190, 239>>

\* C9: for the types of one byte every conversion is the identity on the
\* bits: from_native into either wrapper, new, to_native and the conversion
\* to the other order all hold or return x itself.
C9_OneByteIdentity ==
    T.bytes = 1 => \A i \in 1..Len(chain) : chain[i].v = x

C9_Witness ==
    /\ T.bytes = 1 /\ x = <<222>>
    /\ Len(chain) = 4
    /\ chain[2].call = "from_native" /\ chain[2].kind = "BigEndian"
    /\ chain[3].call = "From<other>"
    /\ chain[4].call = "to_native" /\ chain[4].v = x

(***************************************************************************)
(* Claims about the operator layer (SpecOp).  x and y are the native       *)
(* values of the left and the right operand.                               *)
(***************************************************************************)
\* the order of x and y as numbers: decided by the sign when the signs
\* differ, by the most significant byte that differs otherwise
NativeOrdering ==
    LET D == {i \in 1..Len(x) : x[i] # y[i]}
        m == CHOOSE i \in D : \A j \in D : j <= i
        xneg == T.signed /\ x[Len(x)] >= 128
        yneg == T.signed /\ y[Len(y)] >= 128
    IN  IF D = {} THEN "Some(Equal)"
        ELSE IF xneg # yneg THEN (IF xneg THEN "Some(Less)" ELSE "Some(Greater)")
        ELSE IF x[m] < y[m] THEN "Some(Less)" ELSE "Some(Greater)"

\* op(x, y) when it is representable in T
NativeResult(op) == prim(op, x, y).v

NoOverflow(op) == ~(op \in ArithOps /\ overflows(op, x, y))

\* C3: for every pairing of operands with at least one wrapper, eq returns
\* exactly x = y and partial_cmp returns exactly Some of the order of x and
\* y as native values, whatever the stored byte orders and the target.
C3_Comparison ==
    /\ out.op = "eq" =>
           (out.kind = "bool" /\ out.res = IF x = y THEN "true" ELSE "false")
    /\ out.op = "partial_cmp" =>
           (out.kind = "ordering" /\ out.res = NativeOrdering)

C3_Witness ==
    /\ out.op = "eq" /\ out.res = "false"
    /\ lhs.kind = "LittleEndian" /\ rhs.kind = "BigEndian"
    /\ T.bytes = 2 /\ x = <<1, 0>> /\ y = <<0, 1>>
    /\ lhs.v = rhs.v

\* C4: a bitand, bitor, bitxor, add or sub whose left operand is a wrapper
\* of order X and that does not overflow returns a wrapper of order X whose
\* stored bits are those of X::from_native(op(x, y)), and the to_native of
\* the result is op(x, y).
C4_WrapperLeftOp ==
    (out.op \in Ops /\ lhs.kind \in Endians /\ NoOverflow(out.op)) =>
        IF out.kind = "native"
        THEN out.v = NativeResult(out.op)
        ELSE /\ out.kind = lhs.kind
             /\ out.v = from_native(lhs.kind, NativeResult(out.op)).v

C4_Witness ==
    /\ out.op = "add" /\ out.kind = "LittleEndian"
    /\ lhs.kind = "LittleEndian" /\ rhs.kind = "BigEndian"
    /\ target_endian = "big" /\ T.bytes = 4
    /\ x = <<3, 0, 0, 0>> /\ y = <<4, 0, 0, 0>>
    /\ to_ne_bytes(out.v) = <<7, 0, 0, 0>>

\* C7 as stated: no operator ever panics, add and sub on overflow included.
C7_NeverPanics == out.kind # "panic"

\* C7 as amended: eq, partial_cmp, bitand, bitor and bitxor always return a
\* value; add and sub return a value (the wrapped result on overflow) unless
\* the build checks for overflow and op(x, y) is not representable in T, and
\* then, and only then, they panic.
C7_PanicsOnlyOnCheckedOverflow ==
    out.op # "none" =>
        /\ out.kind = "panic" <=>
               (out.op \in ArithOps /\ overflow_checks /\ overflows(out.op, x, y))
        /\ out.kind # "panic" =>
               out.kind \in
                   IF out.op = "eq" THEN {"bool"}
                   ELSE IF out.op = "partial_cmp" THEN {"ordering"}
                   ELSE IF lhs.kind \in Endians THEN {lhs.kind, "native"}
                   ELSE {"native"}

C7_Witness ==
    /\ out.op = "add" /\ ~overflow_checks /\ overflows("add", x, y)
    /\ ~T.signed /\ T.bytes = 2 /\ x = <<255, 255>> /\ y = <<1, 0>>
    /\ lhs.kind = "BigEndian" /\ rhs.kind = "LittleEndian"
    /\ out.kind = "BigEndian" /\ out.v = <<0, 0>>

\* C10: a bitand, bitor, bitxor, add or sub whose left operand is the native
\* x and whose right operand is a wrapper of y, of either order, and that
\* does not overflow returns the native op(x, y), not encoded.
C10_NativeLeftOp ==
    (out.op \in Ops /\ lhs.kind = "native" /\ NoOverflow(out.op)) =>
        (out.kind = "native" /\ out.v = NativeResult(out.op))

C10_Witness ==
    /\ out.op = "sub" /\ out.kind = "native"
    /\ lhs.kind = "native" /\ rhs.kind = "BigEndian"
    /\ target_endian = "little" /\ T.bytes = 4
    /\ x = <<4, 0, 0, 0>> /\ y = <<3, 0, 0, 0>>
    /\ rhs.v = <<0, 0, 0, 3>>
    /\ out.v = <<1, 0, 0, 0>>

====
